---- MODULE Spec2Model ----
(***************************************************************************)
(* Stack-bounds validation of EOF code sections (validateControlFlow2),    *)
(* in the two revisions kept in the repository:                            *)
(*   "linear"  : core/vm/validate_linear.go                                *)
(*   "part001" : the second revision of the same function                  *)
(* One Step is one iteration of the scan loop, Finish is the code after    *)
(* the loop, Exec is a concrete execution of an accepted section.          *)
(***************************************************************************)
EXTENDS Integers, Sequences, FiniteSets, TLC

\* ------------------------------------------------------------------ bounds
MaxLen == 4
MaxPrefix == 2
MaxSteps == 14
MaxExec == 6
MaxRun == 4
SectionSize == 8

\* --------------------------------------------------------------- constants
StackLimit == 1024
NonReturning == 128
ReturnStackLimit == 1024

\* opcode bytes
STOP == 0
ADD == 1
EQ == 20
ADDRESS == 48
ORIGIN == 50
CALLER == 51
TIMESTAMP == 66
POP == 80
JUMPDEST == 91
PUSH0 == 95
PUSH1 == 96
DATACOPY == 211
RJUMP == 224
RJUMPI == 225
RJUMPV == 226
CALLF == 227
RETF == 228
JUMPF == 229
DUPN == 230
SWAPN == 231
EXCHANGE == 232
RETURN == 243
EXTCALL == 248
REVERT == 253
INVALID == 254
SELFDESTRUCT == 255
CODESIZE == 56
CODECOPY == 57
EXTCODESIZE == 59
EXTCODECOPY == 60
EXTCODEHASH == 63
JUMP == 86
JUMPI == 87
PC == 88
GAS == 90
DATALOAD == 208
DATALOADN == 209
DATASIZE == 210
EOFCREATE == 236
TXCREATE == 237
RETURNCONTRACT == 238
CREATE == 240
CALL == 241
CALLCODE == 242
DELEGATECALL == 244
CREATE2 == 245
RETURNDATALOAD == 247
EXTDELEGATECALL == 249
STATICCALL == 250

\* ----------------------------------------------------------------- helpers
Min2(a, b) == IF a < b THEN a ELSE b
Max2(a, b) == IF a > b THEN a ELSE b

\* a Go map write m[k] = v
Put(f, k, v) == [x \in (DOMAIN f) \cup {k} |-> IF x = k THEN v ELSE f[x]]

RECURSIVE SeqsUpTo(_, _)
SeqsUpTo(S, n) ==
    IF n = 0 THEN {<<>>}
    ELSE LET shorter == SeqsUpTo(S, n - 1)
         IN shorter \cup {Append(s, b) : s \in {t \in shorter : Len(t) = n - 1}, b \in S}

\* ------------------------------------------------------- the jump table jt
minStack(pops, push) == pops
maxStack(pop, push) == StackLimit + pop - push

operation(pops, push, imm, term) ==
    [minStack |-> minStack(pops, push), maxStack |-> maxStack(pops, push),
     immediate |-> imm, terminal |-> term, undefined |-> FALSE]

\* the entry enableEOF gives to deprecated opcodes; unassigned bytes get the same
undefined == [operation(0, 0, 0, FALSE) EXCEPT !.undefined = TRUE]

enableEOF(op) ==
    CASE op = RJUMP -> operation(0, 0, 2, TRUE)
      [] op = RJUMPI -> operation(1, 0, 2, FALSE)
      [] op = RJUMPV -> operation(1, 0, 1, FALSE)
      [] op = CALLF -> operation(0, 0, 2, FALSE)
      [] op = RETF -> operation(0, 0, 0, TRUE)
      [] op = JUMPF -> operation(0, 0, 2, FALSE)
      [] op = DATACOPY -> operation(3, 0, 0, FALSE)
      [] op = DUPN -> operation(0, 1, 1, FALSE)
      [] op = SWAPN -> operation(0, 0, 1, FALSE)
      [] op = EXCHANGE -> operation(0, 0, 1, FALSE)
      [] op = EXTCALL -> operation(6, 1, 0, FALSE)
      [] op = RETURNCONTRACT -> operation(2, 0, 1, FALSE)
      [] op = STATICCALL -> operation(5, 1, 0, FALSE)
      [] op = SELFDESTRUCT -> undefined
      [] OTHER -> undefined

baseInstructionSet(op) ==
    CASE op = STOP -> operation(0, 0, 0, TRUE)
      [] op = ADD -> operation(2, 1, 0, FALSE)
      [] op = EQ -> operation(2, 1, 0, FALSE)
      [] op = ADDRESS -> operation(0, 1, 0, FALSE)
      [] op = ORIGIN -> operation(0, 1, 0, FALSE)
      [] op = CALLER -> operation(0, 1, 0, FALSE)
      [] op = TIMESTAMP -> operation(0, 1, 0, FALSE)
      [] op = POP -> operation(1, 0, 0, FALSE)
      [] op = JUMPDEST -> operation(0, 0, 0, FALSE)
      [] op = PUSH1 -> operation(0, 1, 1, FALSE)
      [] op = RETURN -> operation(2, 0, 0, TRUE)
      [] op = REVERT -> operation(2, 0, 0, TRUE)
      [] op = INVALID -> operation(0, 0, 0, TRUE)
      [] OTHER -> undefined

enable3855(op) == operation(0, 1, 0, FALSE)

jt(op) ==
    IF op \in {RJUMP, RJUMPI, RJUMPV, CALLF, RETF, JUMPF, DATACOPY, DUPN, SWAPN,
               EXCHANGE, EXTCALL, RETURNCONTRACT, STATICCALL, SELFDESTRUCT}
    THEN enableEOF(op)
    ELSE IF op = PUSH0 THEN enable3855(op)
    ELSE baseInstructionSet(op)

\* pushes - pops of an opcode, as the jump table encodes it
Delta(op) == StackLimit - jt(op).maxStack

\* ------------------------------------------------------- immediate decoder
InCode(c, i) == i >= 0 /\ i < Len(c)
At(c, i) == c[i + 1]

\* parseInt16(code[i:]) : big-endian signed 16 bit; needs two bytes
parseInt16(c, i) ==
    LET v == At(c, i) * 256 + At(c, i + 1)
    IN IF v >= 32768 THEN v - 65536 ELSE v

\* parseUint16(code[i:]) with its error dropped: 0 when fewer than two bytes remain
parseUint16(c, i) ==
    IF InCode(c, i) /\ InCode(c, i + 1) THEN At(c, i) * 256 + At(c, i + 1) ELSE 0

\* ------------------------------------------------------------------- state
VARIABLES
    variant,         \* which revision of validateControlFlow2 runs
    code,            \* the section's bytes
    section,         \* index of the section in metadata
    metadata,        \* the type table: Input, Output, MaxStackHeight per section
    pos,             \* scan position at the head of the loop
    stackBounds,     \* map offset -> bounds
    maxStackHeight,  \* running maximum of every max handed to setBounds
    result,          \* "running", "ok" or the error returned (n: the int result)
    steps,           \* loop iterations done
    entry,           \* history: offset -> currentBounds read when it was visited
    origin,          \* history: offset -> kinds of writes that set its bounds
    epc, eh, esteps, \* concrete execution of an accepted section: pc, height, steps
    table,           \* the jump table enableEOF is working on: opcode -> operation
    assigned,        \* how many of the assignments of enableEOF have been done
    previous,        \* what the run before this one returned on the same arguments
    scope            \* the ScopeContext of the frame the interpreter is executing

vars == <<variant, code, section, metadata, pos, stackBounds, maxStackHeight,
          result, steps, entry, origin, epc, eh, esteps, table, assigned, previous,
          scope>>

Res(kind, have, want) == [kind |-> kind, stackLen |-> have, required |-> want, n |-> 0]
Running == Res("running", 0, 0)

bounds(mn, mx) == [min |-> mn, max |-> mx]

\* the closure setBounds: write the bounds, fold max into maxStackHeight
\* (tag records in the history which kind of edge wrote)
setBounds(s, p, mn, mx, tag) ==
    [s EXCEPT !.sb = Put(@, p, bounds(mn, mx)),
              !.msh = Max2(@, mx),
              !.origin = Put(@, p, (IF p \in DOMAIN @ THEN @[p] ELSE {}) \cup {tag})]

FailPartial(s, kind) ==
    [s EXCEPT !.res = [Res(kind, 0, 0) EXCEPT !.n = Cardinality(DOMAIN s.sb)]]
Fail(s, kind) == [s EXCEPT !.res = Res(kind, 0, 0)]
FailWith(s, kind, have, want) == [s EXCEPT !.res = Res(kind, have, want)]

\* --------------------------------------------- comparisons of the first switch
callfUnderflowInclusive(want, have) == want >= have
callfUnderflow(want, have) == want > have
callOverflowInclusive(have, limit) == have >= limit
callOverflow(have, limit) == have > limit
retfNotSingle(mx, mn) == mx # mn
retfWrongOutputs(have, want) == have > want
jumpfUnderflow(v, want, have) == IF v = "linear" THEN want >= have ELSE want > have
jumpfWrongOutputsBelow(have, want) == have < want
jumpfWrongOutputs(have, want) == have # want
dupnUnderflow(v, want, have) == IF v = "linear" THEN want >= have ELSE want > have
exchangeUnderflow(v, want, have) == IF v = "linear" THEN want >= have ELSE want > have
genericUnderflowInclusive(want, have) == want >= have
genericUnderflow(want, have) == want > have

\* first switch of the loop body: the input checks of the opcode at s.pos
checkInputs(v, s) ==
    LET p == s.pos
        op == At(code, p)
        cb == s.cb
    IN
    CASE op = CALLF ->
            LET arg == parseUint16(code, p + 1) IN
            IF arg >= Len(metadata) THEN Fail(s, "panic")
            ELSE LET newSection == metadata[arg + 1]
                     change == newSection.Output - newSection.Input
                     have == cb.max + newSection.MaxStackHeight - newSection.Input
                 IN IF callfUnderflow(newSection.Input, cb.min)
                    THEN FailWith(s, "ErrStackUnderflow", cb.min, newSection.Input)
                    ELSE IF callOverflow(have, StackLimit)
                    THEN FailWith(s, "ErrStackOverflow", have, StackLimit)
                    ELSE LET s2 == setBounds(s, p, cb.min + change, cb.max + change, "callf")
                         IN [s2 EXCEPT !.cb = s2.sb[p]]
      [] op = RETF ->
            IF retfNotSingle(cb.max, cb.min) THEN Fail(s, "ErrInvalidNumberOfOutputs")
            ELSE IF retfWrongOutputs(metadata[section + 1].Output, cb.min)
            THEN Fail(s, "ErrInvalidOutputs")
            ELSE s
      [] op = JUMPF ->
            LET arg == parseUint16(code, p + 1) IN
            IF arg >= Len(metadata) THEN Fail(s, "panic")
            ELSE LET newSection == metadata[arg + 1]
                     have == cb.max + newSection.MaxStackHeight - newSection.Input
                 IN IF callOverflow(have, StackLimit)
                    THEN FailWith(s, "ErrStackOverflow", have, StackLimit)
                    ELSE IF newSection.Output = NonReturning
                    THEN IF jumpfUnderflow(v, newSection.Input, cb.min)
                         THEN FailWith(s, "ErrStackUnderflow", cb.min, newSection.Input)
                         ELSE s
                    ELSE IF cb.max # cb.min THEN Fail(s, "ErrInvalidNumberOfOutputs")
                    ELSE IF jumpfWrongOutputs(cb.max, metadata[section + 1].Output
                                                + newSection.Input - newSection.Output)
                    THEN Fail(s, "ErrInvalidNumberOfOutputs")
                    ELSE s
      [] op \in {DUPN, SWAPN} ->
            IF ~InCode(code, p + 1) THEN Fail(s, "panic")
            ELSE LET arg == At(code, p + 1) + 1 IN
                 IF dupnUnderflow(v, arg, cb.min)
                 THEN FailWith(s, "ErrStackUnderflow", cb.min, arg)
                 ELSE [s EXCEPT !.pos = p + 2]
      [] op = EXCHANGE ->
            IF ~InCode(code, p + 1) THEN Fail(s, "panic")
            ELSE LET arg == At(code, p + 1)
                     n == (arg \div 16) + 1
                     m == (arg % 16) + 1
                 IN IF exchangeUnderflow(v, n + m, cb.min)
                    THEN FailWith(s, "ErrStackUnderflow", cb.min, n + m)
                    ELSE s
      [] OTHER ->
            IF genericUnderflow(jt(op).minStack, cb.min)
            THEN FailWith(s, "ErrStackUnderflow", cb.min, jt(op).minStack)
            ELSE s

\* second switch: the list next (next[0] is the offset before the following
\* instruction, the rest the offsets before the jump targets); <<>> on a panic
rjumpvBase(v, p, count) == IF v = "linear" THEN p + 2 + 2 * count ELSE p + 1 + 2 * count
rjumpvEntries(count) == count - 1

successors(v, p, op) ==
    CASE op = RJUMP ->
            IF InCode(code, p + 2) THEN <<p + 2 + parseInt16(code, p + 1)>> ELSE <<>>
      [] op = RJUMPI ->
            IF InCode(code, p + 2)
            THEN <<p + 2, p + 2 + parseInt16(code, p + 1)>> ELSE <<>>
      [] op = RJUMPV ->
            IF ~InCode(code, p + 1) THEN <<>>
            ELSE LET count == At(code, p + 1) + 1
                     n == rjumpvEntries(count)
                     base == rjumpvBase(v, p, count)
                 IN IF n > 0 /\ ~InCode(code, p + 2 + 2 * (n - 1) + 1) THEN <<>>
                    ELSE <<base>> \o [i \in 1..n |->
                                         base + parseInt16(code, p + 2 + 2 * (i - 1))]
      [] OTHER ->
            IF jt(op).immediate # 0 THEN <<p + jt(op).immediate>> ELSE <<p>>

\* --------------------------------------------------- the loop over next[1:]
\* stack growth the code adds for an opcode: StackLimit - maxStack + minStack
pushChange(op) == StackLimit - jt(op).maxStack + jt(op).minStack

edgeTag(nextPC, p) == IF nextPC > p THEN "fwd" ELSE "back"

linearPastEnd(nextPC, len) == nextPC > len
part001PastEnd(nextPC, len) == nextPC >= len
part001IsForward(nextPC, p) == nextPC >= p
backwardMismatch(have, want) == have # want

\* validate_linear.go: one jump target
linearEdge(s, instr) ==
    LET nextPC == instr + 1
        cb == s.cb
    IN
    IF linearPastEnd(nextPC, Len(code)) THEN Fail(s, "ErrInvalidCodeTermination")
    ELSE IF ~InCode(code, nextPC) THEN Fail(s, "panic")
    ELSE LET nextOP == At(code, nextPC)
             change == pushChange(nextOP)
             s2 == IF nextPC \notin DOMAIN s.sb
                   THEN setBounds(s, nextPC, cb.min + change, cb.max + change,
                                  edgeTag(nextPC, s.pos))
                   ELSE setBounds(s, nextPC, Min2(s.sb[nextPC].min, cb.min),
                                  Max2(s.sb[nextPC].max, cb.max), edgeTag(nextPC, s.pos))
             nextBounds == s2.sb[nextPC]
         IN IF nextPC < s.pos
            THEN IF backwardMismatch(nextBounds.max, cb.max + change)
                    \/ backwardMismatch(nextBounds.min, cb.min + change)
                 THEN Fail(s2, "ErrInvalidBackwardJump")
                 ELSE s2
            ELSE s2

\* the second revision: one jump target; cur is the exit bounds of the instruction
part001Edge(s, instr, cur) ==
    LET nextPC == instr + 1
        cb == s.cb
    IN
    IF part001PastEnd(nextPC, Len(code)) THEN Fail(s, "ErrInvalidCodeTermination")
    ELSE IF ~InCode(code, nextPC) THEN Fail(s, "panic")
    ELSE LET nextOP == At(code, nextPC) IN
         IF part001IsForward(nextPC, s.pos)
         THEN IF nextPC \notin DOMAIN s.sb
              THEN setBounds(s, nextPC, cur.min, cur.max, edgeTag(nextPC, s.pos))
              ELSE setBounds(s, nextPC, Min2(s.sb[nextPC].min, cur.min),
                             Max2(s.sb[nextPC].max, cur.max), edgeTag(nextPC, s.pos))
         ELSE IF nextPC \notin DOMAIN s.sb THEN Fail(s, "ErrInvalidBackwardJump")
              ELSE LET nextBounds == s.sb[nextPC]
                       change == pushChange(nextOP)
                   IN IF backwardMismatch(nextBounds.max + change, cb.max)
                         \/ backwardMismatch(nextBounds.min + change, cb.min)
                      THEN Fail(s, "ErrInvalidBackwardJump")
                      ELSE s

RECURSIVE edges(_, _, _, _)
edges(v, s, targets, cur) ==
    IF targets = <<>> \/ s.res.kind # "running" THEN s
    ELSE edges(v,
               IF v = "linear" THEN linearEdge(s, Head(targets))
               ELSE part001Edge(s, Head(targets), cur),
               Tail(targets), cur)

\* ------------------------------------------------------ the end of the body
\* exit bounds the second revision computes before the second switch
part001Exit(op, cb) ==
    IF ~jt(op).terminal /\ op # CALLF
    THEN bounds(cb.min + (StackLimit - jt(op).maxStack), cb.max + (StackLimit - jt(op).maxStack))
    ELSE cb

linearFallsThrough(op) == ~jt(op).terminal /\ op # RJUMP
part001FallsThrough(op) == ~jt(op).terminal

\* validate_linear.go:140-145, then the loop's pos++
linearTail(s, op, next) ==
    LET s2 == [s EXCEPT !.pos = next[1]] IN
    LET s3 == IF linearFallsThrough(op)
              THEN setBounds(s2, s2.pos + 1, s.cb.min + pushChange(op),
                             s.cb.max + pushChange(op), "fall")
              ELSE s2
    IN [s3 EXCEPT !.pos = @ + 1]

\* second revision :158-164, then the loop's pos++
part001Tail(s, op, next, cur) ==
    LET s2 == IF op # RJUMP THEN [s EXCEPT !.pos = next[1]] ELSE s IN
    LET s3 == IF part001FallsThrough(op)
              THEN setBounds(s2, s2.pos + 1, cur.min, cur.max, "fall")
              ELSE s2
    IN [s3 EXCEPT !.pos = @ + 1]

\* one iteration of the loop `for pos := 0; pos < len(code); pos++`
loopBody(v, s0) ==
    IF ~InCode(code, s0.pos) THEN Fail(s0, "panic")
    ELSE IF s0.pos \notin DOMAIN s0.sb THEN Fail(s0, "ErrUnreachableCode")
    ELSE
    LET op == At(code, s0.pos)
        s1 == checkInputs(v, [s0 EXCEPT !.cb = s0.sb[s0.pos]])
    IN IF s1.res.kind # "running" THEN s1
       ELSE LET cur == part001Exit(op, s1.cb)
                next == successors(v, s1.pos, op)
            IN IF next = <<>> THEN Fail(s1, "panic")
               ELSE LET s2 == edges(v, s1, Tail(next), cur) IN
                    IF s2.res.kind # "running" THEN s2
                    ELSE IF v = "linear" THEN linearTail(s2, op, next)
                    ELSE part001Tail(s2, op, next, cur)

\* the checks after the loop
finalOverflowStrict(msh, limit) == msh > limit
finalOverflow(msh, limit) == msh >= limit

finalCheck(msh, declared, count) ==
    IF finalOverflow(msh, StackLimit) THEN Res("ErrStackOverflow", msh, StackLimit)
    ELSE IF msh # declared THEN Res("ErrInvalidMaxStackHeight", msh, declared)
    ELSE [kind |-> "ok", stackLen |-> 0, required |-> 0, n |-> count]

\* ------------------------------------------------------------------ inputs
FunctionMetadata(i, o, m) == [Input |-> i, Output |-> o, MaxStackHeight |-> m]

test(c, sec, md) == [code |-> c, section |-> sec, metadata |-> md]

\* the cases of TestValidateCode and the snippet of BenchmarkRJUMPI
TestValidateCode ==
    { test(<<CALLER, POP, STOP>>, 0, <<FunctionMetadata(0, 0, 1)>>),
      test(<<CALLF, 0, 0, STOP>>, 0, <<FunctionMetadata(0, 0, 0)>>),
      test(<<ADDRESS, CALLF, 0, 0, STOP>>, 0, <<FunctionMetadata(0, 0, 1)>>),
      test(<<CALLER, POP>>, 0, <<FunctionMetadata(0, 0, 1)>>),
      test(<<RJUMP, 0, 1, CALLER, STOP>>, 0, <<FunctionMetadata(0, 0, 0)>>),
      test(<<PUSH1, 66, ADD, STOP>>, 0, <<FunctionMetadata(0, 0, 1)>>),
      test(<<PUSH1, 66, POP, STOP>>, 0, <<FunctionMetadata(0, 0, 2)>>),
      test(<<PUSH0, RJUMPI, 0, 1, PUSH1, 66, POP, STOP>>, 0, <<FunctionMetadata(0, 0, 1)>>),
      test(<<PUSH0, RJUMPV, 1, 0, 1, 0, 2, PUSH1, 66, POP, STOP>>, 0,
           <<FunctionMetadata(0, 0, 1)>>),
      test(<<PUSH0, RJUMPV, 0, STOP>>, 0, <<FunctionMetadata(0, 0, 1)>>),
      test(<<RJUMP, 0, 3, JUMPDEST, JUMPDEST, RETURN, PUSH1, 20, PUSH1, 39, PUSH1, 0,
             DATACOPY, PUSH1, 20, PUSH1, 0, RJUMP, 255, 239>>, 0,
           <<FunctionMetadata(0, 0, 3)>>),
      test(<<PUSH1, 1, RJUMPI, 0, 3, JUMPDEST, JUMPDEST, STOP, PUSH1, 20, PUSH1, 39,
             PUSH1, 0, DATACOPY, PUSH1, 20, PUSH1, 0, RETURN>>, 0,
           <<FunctionMetadata(0, 0, 3)>>),
      test(<<PUSH1, 1, RJUMPV, 1, 0, 3, 255, 248, JUMPDEST, JUMPDEST, STOP, PUSH1, 20,
             PUSH1, 39, PUSH1, 0, DATACOPY, PUSH1, 20, PUSH1, 0, RETURN>>, 0,
           <<FunctionMetadata(0, 0, 3)>>),
      test(<<STOP, STOP, INVALID>>, 0, <<FunctionMetadata(0, 0, 0)>>),
      test(<<RETF>>, 0, <<FunctionMetadata(0, 1, 0)>>),
      test(<<RETF>>, 0, <<FunctionMetadata(3, 3, 3)>>),
      test(<<CALLF, 0, 1, POP, STOP>>, 0,
           <<FunctionMetadata(0, 0, 1), FunctionMetadata(0, 1, 0)>>),
      test(<<ORIGIN, ORIGIN, CALLF, 0, 1, POP, RETF>>, 0,
           <<FunctionMetadata(0, 0, 2), FunctionMetadata(2, 1, 2)>>),
      test(<<PUSH0, RJUMPI, 255, 252, PUSH0, RJUMPI, 255, 252, STOP>>, 0,
           <<FunctionMetadata(0, 0, 1)>>) }

\* further sections: loops and joins longer than MaxLen
Loops ==
    { test(<<CALLER, POP, CALLER, RJUMPI, 255, 251, STOP>>, 0, <<FunctionMetadata(0, 0, 1)>>),
      test(<<JUMPDEST, PUSH0, RJUMPI, 255, 251, STOP>>, 0, <<FunctionMetadata(0, 0, 1)>>),
      test(<<PUSH0, RJUMPI, 0, 1, PUSH0, STOP>>, 0, <<FunctionMetadata(0, 0, 1)>>),
      test(<<PUSH0, RJUMPI, 0, 1, PUSH0, STOP>>, 0, <<FunctionMetadata(0, 0, 2)>>),
      test(<<RJUMPI, 0, 1, PUSH0, STOP>>, 0, <<FunctionMetadata(1, 0, 1)>>),
      test(<<RJUMPI, 0, 1, PUSH0, STOP>>, 0, <<FunctionMetadata(1, 0, 2)>>),
      test(<<RJUMPI, 0, 5, RJUMP, 0, 2, JUMPDEST, STOP, PUSH0, RJUMPI, 255, 250,
             RJUMP, 255, 247>>, 0, <<FunctionMetadata(1, 0, 2)>>),
      test(<<CALLF, 0, 1, PUSH0, RETF>>, 0,
           <<FunctionMetadata(0, NonReturning, 128), FunctionMetadata(0, 127, 127)>>),
      test(<<RJUMPI, 0, 1, STOP, CALLER, RETF>>, 0, <<FunctionMetadata(1, 3, 3)>>),
      test(<<RJUMPI, 0, 1, STOP, CALLER, RETF>>, 0, <<FunctionMetadata(1, 1, 1)>>),
      test(<<RJUMP, 0, 0, STOP>>, 0, <<FunctionMetadata(0, 0, 0)>>),
      test(<<PUSH0, RJUMPV, 0, 0, 1, STOP, STOP>>, 0, <<FunctionMetadata(0, 0, 1)>>),
      test(<<PUSH0, RJUMPV, 1, 0, 0, 0, 1, STOP, STOP>>, 0, <<FunctionMetadata(0, 0, 1)>>),
      test(<<RETURNCONTRACT, 0, STOP>>, 0, <<FunctionMetadata(2, NonReturning, 2)>>),
      test(<<RJUMPI, 0, 4, RJUMP, 0, 1, CALLER, STOP>>, 0, <<FunctionMetadata(1, 0, 1)>>) }

Alphabet == {STOP, ADD, CALLER, POP, RJUMPI, RETF}

SmallMetadata ==
    { <<FunctionMetadata(i, o, m)>> : i \in {0, 1}, o \in {0, 1, NonReturning}, m \in {0, 1, 2} }

SmallTests ==
    { test(c, 0, md) : c \in SeqsUpTo(Alphabet, MaxLen) \ {<<>>}, md \in SmallMetadata }

\* a relative jump with a negative offset after a short prefix
LoopTests ==
    { test(pre \o <<j, 255, lo>> \o suf, 0, <<FunctionMetadata(i, 0, m)>>) :
        pre \in SeqsUpTo({CALLER, POP, JUMPDEST}, MaxPrefix), j \in {RJUMP, RJUMPI},
        lo \in 249..253, suf \in {<<STOP>>, <<POP, STOP>>}, i \in {0, 1}, m \in {0, 1, 2} }

\* a CALLF or JUMPF to section 1, after at most one push; the callee's
\* MaxStackHeight sits at the stack limit's edge
CallTests ==
    { test(pre \o <<op, 0, 1, STOP>>, 0,
           <<FunctionMetadata(i, o, m), FunctionMetadata(ci, co, cm)>>) :
        pre \in SeqsUpTo({CALLER}, 1), op \in {CALLF, JUMPF},
        i \in {0, 1}, o \in {0, NonReturning}, m \in {1, 2},
        ci \in {0, 1}, co \in {0, 1, NonReturning}, cm \in {1, StackLimit - 2, StackLimit - 1} }

\* hand-built sections around calls
Calls ==
    { test(<<CALLF, 0, 1, STOP>>, 0,
           <<FunctionMetadata(0, 0, 128), FunctionMetadata(0, NonReturning, 0)>>),
      test(<<RJUMPI, 0, 4, RJUMPI, 0, 1, STOP, JUMPF, 0, 1>>, 0,
           <<FunctionMetadata(2, 0, 2), FunctionMetadata(0, 0, 0)>>),
      test(<<JUMPF, 0, 1>>, 0,
           <<FunctionMetadata(1, NonReturning, 1), FunctionMetadata(0, NonReturning, StackLimit)>>) }

\* a DUPN, SWAPN or EXCHANGE followed by a few one-byte instructions
ImmediateTests ==
    { test(<<op, x>> \o mid \o <<STOP>>, 0, <<FunctionMetadata(i, 0, m)>>) :
        op \in {DUPN, SWAPN, EXCHANGE}, x \in {0, 1}, mid \in SeqsUpTo({POP}, MaxPrefix),
        i \in {0, 1, 2, 3}, m \in {2, 3, 4} }

\* a section of 127 inputs that calls its way up to the stack limit: seven calls
\* of a section that leaves 127 items, one of a section that leaves 7 or 8
DeepCalls ==
    { test(<<CALLF, 0, 2, CALLF, 0, 2, CALLF, 0, 2, CALLF, 0, 2, CALLF, 0, 2,
             CALLF, 0, 2, CALLF, 0, 2, CALLF, 0, 3, STOP>>, 1,
           <<FunctionMetadata(0, NonReturning, 0), FunctionMetadata(127, NonReturning, m),
             FunctionMetadata(0, 127, 127), FunctionMetadata(0, o, o)>>) :
        m \in {StackLimit - 1, StackLimit}, o \in {7, 8} }

Variants == {"linear", "part001"}

\* a ScopeContext: InitCodeMode, Stack (its length), ReturnStack, CodeSection and
\* the interpreter's pc, with err, the error the last opcode returned ("" for
\* nil); op, arg, entered, calls, returned and steps are history
Scope(mode, height, frames) ==
    [InitCodeMode |-> mode, Stack |-> height, ReturnStack |-> frames,
     CodeSection |-> 0, pc |-> 0, err |-> "",
     op |-> "", arg |-> -1, entered |-> mode, calls |-> <<>>,
     returned |-> [section |-> -1, pc |-> -1, depth |-> -1, jumped |-> FALSE],
     steps |-> 0]

\* no frame is executing
NoScope == Scope(FALSE, 0, <<>>)

\* ---------------------------------------------------------------- actions
Init ==
    /\ variant \in Variants
    /\ \E t \in SmallTests \cup LoopTests \cup CallTests \cup ImmediateTests
                 \cup TestValidateCode \cup Loops \cup Calls \cup DeepCalls :
          /\ code = t.code
          /\ section = t.section
          /\ metadata = t.metadata
    /\ pos = 0
    /\ stackBounds = (0 :> bounds(metadata[section + 1].Input, metadata[section + 1].Input))
    /\ maxStackHeight = metadata[section + 1].Input
    /\ result = Running
    /\ steps = 0
    /\ entry = <<>>
    /\ origin = (0 :> {"init"})
    /\ epc = 0
    /\ eh = metadata[section + 1].Input
    /\ esteps = 0
    /\ table = <<>>
    /\ assigned = 0
    /\ previous = Res("none", 0, 0)
    /\ scope = NoScope

\* one iteration of the scan loop of validateControlFlow2
Step ==
    /\ result.kind = "running"
    /\ pos < Len(code)
    /\ steps < MaxSteps
    /\ LET s == loopBody(variant, [pos |-> pos, cb |-> bounds(0, 0), sb |-> stackBounds,
                                   msh |-> maxStackHeight, origin |-> origin,
                                   res |-> Running])
       IN /\ pos' = s.pos
          /\ stackBounds' = s.sb
          /\ maxStackHeight' = s.msh
          /\ origin' = s.origin
          /\ result' = s.res
          /\ entry' = IF pos \in DOMAIN stackBounds THEN Put(entry, pos, stackBounds[pos])
                      ELSE entry
    /\ steps' = steps + 1
    /\ UNCHANGED <<variant, code, section, metadata, epc, eh, esteps, table, assigned, previous,
                   scope>>

\* the loop has ended: the checks on maxStackHeight and the return
Finish ==
    /\ result.kind = "running"
    /\ pos >= Len(code)
    /\ result' = finalCheck(maxStackHeight, metadata[section + 1].MaxStackHeight,
                            Cardinality(DOMAIN stackBounds))
    /\ UNCHANGED <<variant, code, section, metadata, pos, stackBounds, maxStackHeight,
                   steps, entry, origin, epc, eh, esteps, table, assigned, previous, scope>>

\* -------------------------------------------------------- concrete execution
\* what the interpreter does with the instruction at p on a stack of height h:
\* the set of <<pc, height>> it can continue with
opRjump(p) == p + 3 + parseInt16(code, p + 1)
opRjumpv(p) ==
    LET maxIndex == At(code, p + 1) + 1 IN
    {p + 2 + 2 * maxIndex} \cup
    {p + 2 + 2 * maxIndex + parseInt16(code, p + 2 + 2 * i) : i \in 0..(maxIndex - 1)}

hasImmediates(p, n) == InCode(code, p + n)

runtimeSuccessors(p, h) ==
    LET op == At(code, p) IN
    IF h < jt(op).minStack THEN {}
    ELSE CASE op = RJUMP -> IF hasImmediates(p, 2) THEN {<<opRjump(p), h>>} ELSE {}
           [] op = RJUMPI ->
                 IF hasImmediates(p, 2) THEN {<<p + 3, h - 1>>, <<opRjump(p), h - 1>>} ELSE {}
           [] op = RJUMPV ->
                 IF hasImmediates(p, 1) /\ hasImmediates(p, 1 + 2 * (At(code, p + 1) + 1))
                 THEN {<<t, h - 1>> : t \in opRjumpv(p)} ELSE {}
           [] op = CALLF ->
                 LET idx == parseUint16(code, p + 1) IN
                 IF idx < Len(metadata) /\ h >= metadata[idx + 1].Input
                 THEN {<<p + 3, h - metadata[idx + 1].Input + metadata[idx + 1].Output>>}
                 ELSE {}
           [] op \in {RETF, JUMPF} -> {}
           [] OTHER ->
                 IF jt(op).terminal \/ jt(op).undefined THEN {}
                 ELSE {<<p + 1 + jt(op).immediate, h + Delta(op)>>}

Exec ==
    /\ result.kind = "ok"
    /\ esteps < MaxExec
    /\ InCode(code, epc)
    /\ \E nx \in runtimeSuccessors(epc, eh) :
          /\ epc' = nx[1]
          /\ eh' = nx[2]
    /\ esteps' = esteps + 1
    /\ UNCHANGED <<variant, code, section, metadata, pos, stackBounds, maxStackHeight,
                   result, steps, entry, origin, table, assigned, previous, scope>>

Next == Step \/ Finish \/ Exec

Spec == Init /\ [][Next]_vars

\* the two revisions on their own
InitLinear == Init /\ variant = "linear"
InitPart001 == Init /\ variant = "part001"
SpecLinear == InitLinear /\ [][Next]_vars
SpecPart001 == InitPart001 /\ [][Next]_vars

\* ------------------------------------------------------------ a second run
\* the map and the maximum a call of validateControlFlow2 starts with; old is
\* what the call before left behind
newStackBoundsKept(old, input) == Put(old, 0, bounds(input, input))
newStackBounds(old, input) == (0 :> bounds(input, input))
newMaxStackHeight(old, input) == input

\* validateControlFlow2 is called again with the same arguments
Rerun ==
    /\ result.kind \notin {"running", "panic"}
    /\ previous.kind = "none"
    /\ previous' = result
    /\ pos' = 0
    /\ stackBounds' = newStackBounds(stackBounds, metadata[section + 1].Input)
    /\ maxStackHeight' = newMaxStackHeight(maxStackHeight, metadata[section + 1].Input)
    /\ result' = Running
    /\ steps' = 0
    /\ entry' = <<>>
    /\ origin' = (0 :> {"init"})
    /\ UNCHANGED <<variant, code, section, metadata, epc, eh, esteps, table, assigned, scope>>

NextRerun == Step \/ Finish \/ Rerun

SpecRerun == Init /\ [][NextRerun]_vars

\* ------------------------------------------------------------- enableEOF
\* the assignments jt[op] = ... of enableEOF, in the order of the source
assign(op, d) == [op |-> op, operation |-> d]

enableEOFAssignments ==
    << assign(CALL, undefined), assign(CALLCODE, undefined),
       assign(DELEGATECALL, undefined), assign(STATICCALL, undefined),
       assign(SELFDESTRUCT, undefined), assign(JUMP, undefined),
       assign(JUMPI, undefined), assign(PC, undefined),
       assign(CREATE, undefined), assign(CREATE2, undefined),
       assign(CODESIZE, undefined), assign(CODECOPY, undefined),
       assign(EXTCODESIZE, undefined), assign(EXTCODECOPY, undefined),
       assign(EXTCODEHASH, undefined), assign(GAS, undefined),
       assign(RJUMP, operation(0, 0, 2, TRUE)),
       assign(RJUMPI, operation(1, 0, 2, FALSE)),
       assign(RJUMPV, operation(1, 0, 1, FALSE)),
       assign(CALLF, operation(0, 0, 2, FALSE)),
       assign(RETF, operation(0, 0, 0, TRUE)),
       assign(JUMPF, operation(0, 0, 2, FALSE)),
       assign(EOFCREATE, operation(4, 1, 1, FALSE)),
       assign(TXCREATE, operation(5, 1, 0, FALSE)),
       assign(RETURNCONTRACT, operation(2, 0, 1, FALSE)),
       assign(DATALOAD, operation(1, 1, 0, FALSE)),
       assign(DATALOADN, operation(0, 1, 2, FALSE)),
       assign(DATASIZE, operation(0, 1, 0, FALSE)),
       assign(DATACOPY, operation(3, 0, 0, FALSE)),
       assign(DUPN, operation(0, 1, 1, FALSE)),
       assign(SWAPN, operation(0, 0, 1, FALSE)),
       assign(EXCHANGE, operation(0, 0, 1, FALSE)),
       assign(RETURNDATALOAD, operation(1, 1, 0, FALSE)),
       assign(EXTCALL, operation(6, 1, 0, FALSE)),
       assign(EXTDELEGATECALL, operation(5, 1, 0, FALSE)),
       assign(STATICCALL, operation(5, 1, 0, FALSE)) >>

\* the opcodes enableEOF touches
Opcodes == {enableEOFAssignments[k].op : k \in 1..Len(enableEOFAssignments)}

\* jump tables handed to enableEOF: some of the opcodes are defined in them
JumpTables ==
    { [op \in Opcodes |-> IF op \in S THEN operation(1, 1, 0, FALSE) ELSE undefined] :
        S \in SUBSET {CALL, STATICCALL, JUMP, GAS, EXTCALL} }

InitEnableEOF ==
    /\ variant = "linear"
    /\ code = <<STOP>>
    /\ section = 0
    /\ metadata = <<FunctionMetadata(0, 0, 0)>>
    /\ pos = 0
    /\ stackBounds = (0 :> bounds(0, 0))
    /\ maxStackHeight = 0
    /\ result = Running
    /\ steps = 0
    /\ entry = <<>>
    /\ origin = (0 :> {"init"})
    /\ epc = 0
    /\ eh = 0
    /\ esteps = 0
    /\ table \in JumpTables
    /\ assigned = 0
    /\ previous = Res("none", 0, 0)
    /\ scope = NoScope

\* the next assignment of enableEOF
Assign ==
    /\ assigned < Len(enableEOFAssignments)
    /\ table' = [table EXCEPT ![enableEOFAssignments[assigned + 1].op] =
                                   enableEOFAssignments[assigned + 1].operation]
    /\ assigned' = assigned + 1
    /\ UNCHANGED <<variant, code, section, metadata, pos, stackBounds, maxStackHeight,
                   result, steps, entry, origin, epc, eh, esteps, previous, scope>>

NextEnableEOF == Assign

SpecEnableEOF == InitEnableEOF /\ [][NextEnableEOF]_vars

\* enableEOF has returned
enabled == assigned = Len(enableEOFAssignments)

\* the opcodes that exist only in legacy code
legacyOnly ==
    {JUMP, JUMPI, PC, CREATE, CREATE2, CALL, CALLCODE, DELEGATECALL, STATICCALL,
     SELFDESTRUCT, CODESIZE, CODECOPY, EXTCODESIZE, EXTCODECOPY, EXTCODEHASH, GAS}

\* ------------------------------------------------- the interpreter's frame
\* the container of the running contract: its types are metadata, its code
\* sections lie SectionSize bytes apart
codeSectionOffsets(idx) == idx * SectionSize

RuntimeTypes ==
    <<FunctionMetadata(0, NonReturning, 4), FunctionMetadata(0, 0, StackLimit - 1),
      FunctionMetadata(1, 1, 2)>>

ReturnContextAtCall(sec, retpc, height) ==
    [Section |-> sec, Pc |-> retpc - 3, StackHeight |-> height]
ReturnContext(sec, retpc, height) == [Section |-> sec, Pc |-> retpc, StackHeight |-> height]

\* the return stack after section 0 has called section 2 at pc 0 and section 2
\* has called itself at its first byte n - 1 times
recursion(n) ==
    [k \in 1..n |-> IF k = 1 THEN ReturnContext(0, 3, 0)
                    ELSE ReturnContext(2, codeSectionOffsets(2) + 3, 0)]

\* the two tests of opCallf; opJumpf has the first
stackOverflow(height, typ) == height + typ.MaxStackHeight - typ.Input > StackLimit
returnStackOverflowStrict(n) == n > ReturnStackLimit
returnStackOverflow(n) == n >= ReturnStackLimit

\* pc is a uint64: section offset 0 minus 1 wraps around and the interpreter's
\* increment wraps back, which the integer -1 followed by + 1 agrees with
opCallf(s, idx) ==
    LET typ == metadata[idx + 1] IN
    IF stackOverflow(s.Stack, typ) THEN [s EXCEPT !.err = "stack overflow"]
    ELSE IF returnStackOverflow(Len(s.ReturnStack))
    THEN [s EXCEPT !.err = "return stack overflow"]
    ELSE [s EXCEPT !.ReturnStack = Append(@, ReturnContext(s.CodeSection, s.pc + 3,
                                                          s.Stack - typ.Input)),
                   !.CodeSection = idx,
                   !.pc = codeSectionOffsets(idx) - 1]

\* ReturnStack.Pop() on an empty return stack indexes out of range
opRetf(s) ==
    IF s.ReturnStack = <<>> THEN [s EXCEPT !.err = "panic"]
    ELSE LET retCtx == s.ReturnStack[Len(s.ReturnStack)] IN
         [s EXCEPT !.ReturnStack = SubSeq(@, 1, Len(@) - 1),
                   !.CodeSection = retCtx.Section,
                   !.pc = retCtx.Pc - 1]

\* what opJumpf does to the return stack: nothing
jumpfReturnStackPushed(frames, retCtx) == Append(frames, retCtx)
jumpfReturnStack(frames, retCtx) == frames

opJumpf(s, idx) ==
    LET typ == metadata[idx + 1] IN
    IF stackOverflow(s.Stack, typ) THEN [s EXCEPT !.err = "stack overflow"]
    ELSE [s EXCEPT !.ReturnStack = jumpfReturnStack(@, ReturnContext(s.CodeSection, s.pc + 3,
                                                                    s.Stack - typ.Input)),
                   !.CodeSection = idx,
                   !.pc = codeSectionOffsets(idx) - 1]

\* opTXCreate: readOnly is the interpreter's flag, found whether a transaction
\* initcode has the hash popped from the stack; what EOFCreate returns changes
\* the value pushed, not the frame
opTXCreate(s, readOnly, found) ==
    IF readOnly THEN [s EXCEPT !.err = "ErrWriteProtection"]
    ELSE LET popped == [s EXCEPT !.Stack = @ - 5]
             missing == IF found THEN popped ELSE [popped EXCEPT !.Stack = @ + 1]
             marked == [missing EXCEPT !.InitCodeMode = TRUE]
         IN [marked EXCEPT !.Stack = @ + 1]

\* opReturnContract of eof_instructions.go: valid is whether the subcontainer
\* exists, unmarshals, holds its data and validates
opReturnContract(s, valid) ==
    IF ~s.InitCodeMode THEN [s EXCEPT !.err = "returncontract in non-initcode mode"]
    ELSE LET popped == [s EXCEPT !.Stack = @ - 2] IN
         IF valid THEN [popped EXCEPT !.err = "errStopToken"]
         ELSE [popped EXCEPT !.err = "invalid subcontainer"]

\* opReturnContract of eips.go: the check and nothing else
opReturnContractStub(s) ==
    IF ~s.InitCodeMode THEN [s EXCEPT !.err = "returncontract in non-initcode mode"]
    ELSE s

opPush0(s) == [s EXCEPT !.Stack = @ + 1]

\* the interpreter's loop around an opcode: it runs the opcode only when the
\* stack holds the opcode's minStack items, and increments pc when the opcode
\* returned no error
none == [section |-> -1, pc |-> -1, depth |-> -1, jumped |-> FALSE]

canRun(pops) ==
    /\ scope.err = "" /\ scope.steps < MaxRun
    /\ scope.Stack >= pops

loop(s, name, calls, returned) ==
    [s EXCEPT !.pc = IF s.err = "" THEN @ + 1 ELSE @,
              !.op = name, !.steps = @ + 1,
              !.calls = IF s.err = "" THEN calls ELSE @,
              !.returned = IF s.err = "" THEN returned ELSE none]

validatorIdle ==
    UNCHANGED <<variant, code, section, metadata, pos, stackBounds, maxStackHeight,
                result, steps, entry, origin, epc, eh, esteps, table, assigned, previous>>

Sections == 0..(Len(metadata) - 1)

\* the call site CALLF records in the history
callSite == [section |-> scope.CodeSection, pc |-> scope.pc,
             depth |-> Len(scope.ReturnStack), jumped |-> FALSE]

OpCallf ==
    /\ canRun(0)
    /\ \E idx \in Sections :
          scope' = loop([opCallf(scope, idx) EXCEPT !.arg = idx], "CALLF",
                        Append(scope.calls, callSite), none)
    /\ validatorIdle

OpRetf ==
    /\ canRun(0)
    /\ scope' = IF scope.calls = <<>> THEN loop(opRetf(scope), "RETF", <<>>, none)
                ELSE loop(opRetf(scope), "RETF",
                          SubSeq(scope.calls, 1, Len(scope.calls) - 1),
                          scope.calls[Len(scope.calls)])
    /\ validatorIdle

OpJumpf ==
    /\ canRun(0)
    /\ \E idx \in Sections :
          scope' = loop([opJumpf(scope, idx) EXCEPT !.arg = idx], "JUMPF",
                        IF scope.calls = <<>> THEN <<>>
                        ELSE [scope.calls EXCEPT ![Len(scope.calls)].jumped = TRUE],
                        none)
    /\ validatorIdle

OpTXCreate ==
    /\ canRun(5)
    /\ \E readOnly \in BOOLEAN, found \in BOOLEAN :
          scope' = loop(opTXCreate(scope, readOnly, found), "TXCREATE", scope.calls, none)
    /\ validatorIdle

OpReturnContract ==
    /\ canRun(2)
    /\ \/ \E valid \in BOOLEAN :
             scope' = loop(opReturnContract(scope, valid), "RETURNCONTRACT", scope.calls, none)
       \/ scope' = loop(opReturnContractStub(scope), "RETURNCONTRACT", scope.calls, none)
    /\ validatorIdle

OpPush0 ==
    /\ canRun(0)
    /\ scope.Stack < StackLimit
    /\ scope' = loop(opPush0(scope), "PUSH0", scope.calls, none)
    /\ validatorIdle

\* a frame of the container with RuntimeTypes: at the start of section 0, or in
\* section 2 below a return stack of 1 or ReturnStackLimit - 1 frames
InitRuntime ==
    /\ variant = "linear"
    /\ code = <<STOP>>
    /\ section = 0
    /\ metadata = RuntimeTypes
    /\ pos = 0
    /\ stackBounds = (0 :> bounds(0, 0))
    /\ maxStackHeight = 0
    /\ result = Running
    /\ steps = 0
    /\ entry = <<>>
    /\ origin = (0 :> {"init"})
    /\ epc = 0
    /\ eh = 0
    /\ esteps = 0
    /\ table = <<>>
    /\ assigned = 0
    /\ previous = Res("none", 0, 0)
    /\ \E mode \in BOOLEAN, height \in {1, 5} :
          \/ scope = Scope(mode, height, <<>>)
          \/ \E n \in {1, ReturnStackLimit - 1} :
                scope = [Scope(mode, height, recursion(n)) EXCEPT
                            !.CodeSection = 2, !.pc = codeSectionOffsets(2)]

NextRuntime == OpCallf \/ OpRetf \/ OpJumpf \/ OpTXCreate \/ OpReturnContract \/ OpPush0

SpecRuntime == InitRuntime /\ [][NextRuntime]_vars

\* ----------------------------------------------------- notions of the claims
sectionType == metadata[section + 1]
accepted == result.kind = "ok"
visited == DOMAIN entry
opAt(p) == At(code, p)

shift(b, d) == bounds(b.min + d, b.max + d)

\* exit bounds of the visited instruction at s: its entry bounds shifted by its
\* stack effect (pushes - pops; Output - Input of the callee for CALLF)
stackEffect(s) ==
    IF opAt(s) = CALLF
    THEN LET idx == parseUint16(code, s + 1) IN
         IF idx < Len(metadata) THEN metadata[idx + 1].Output - metadata[idx + 1].Input ELSE 0
    ELSE Delta(opAt(s))
exit(s) == shift(entry[s], stackEffect(s))

\* offsets execution can continue at after the instruction at p
successorOffsets(p) == {nx[1] : nx \in runtimeSuccessors(p, StackLimit)}
jumpTargets(p) ==
    IF opAt(p) \in {RJUMP, RJUMPI, RJUMPV}
    THEN IF opAt(p) = RJUMP THEN successorOffsets(p)
         ELSE IF opAt(p) = RJUMPI /\ hasImmediates(p, 2) THEN {opRjump(p)}
         ELSE IF opAt(p) = RJUMPV /\ successorOffsets(p) # {}
         THEN {p + 2 + 2 * (At(code, p + 1) + 1) + parseInt16(code, p + 2 + 2 * i) :
                  i \in 0..At(code, p + 1)}
         ELSE {}
    ELSE {}

\* the instruction starts of the section by a left-to-right decode; {} when an
\* instruction is cut off by the end of the section
instructionSize(p) ==
    IF opAt(p) = RJUMPV
    THEN IF InCode(code, p + 1) THEN 2 + 2 * (At(code, p + 1) + 1) ELSE 2
    ELSE 1 + jt(opAt(p)).immediate

RECURSIVE decode(_, _)
decode(p, acc) ==
    IF p = Len(code) THEN acc
    ELSE IF p + instructionSize(p) > Len(code) THEN {}
    ELSE decode(p + instructionSize(p), acc \cup {p})

instructionStarts == decode(0, {})

jumpTargetsValid ==
    /\ instructionStarts # {}
    /\ \A p \in instructionStarts : jumpTargets(p) \subseteq instructionStarts

RECURSIVE maxOf(_)
maxOf(S) == IF S = {} THEN 0 ELSE LET x == CHOOSE y \in S : TRUE IN Max2(x, maxOf(S \ {x}))

\* the <<offset, height>> pairs a concrete execution from <<0, Input>> reaches
\* within n instructions
RECURSIVE reach(_, _, _)
reach(frontier, seen, n) ==
    IF frontier = {} \/ n = 0 THEN seen
    ELSE LET nxt == UNION {runtimeSuccessors(x[1], x[2]) : x \in frontier}
             new == {x \in nxt : InCode(code, x[1])} \ seen
         IN reach(new, seen \cup new, n - 1)

concreteHeights ==
    LET start == <<0, sectionType.Input>> IN reach({start}, {start}, 2 * Len(code))

\* the largest height on entry to an instruction of the section
observedMax == maxOf({x[2] : x \in concreteHeights})

\* the last instruction of the section is terminal
endsTerminal ==
    /\ instructionStarts # {}
    /\ \E p \in instructionStarts :
          /\ p + instructionSize(p) = Len(code)
          /\ jt(opAt(p)).terminal \/ opAt(p) = JUMPF

\* the running height of a jump-free opcode sequence from the empty stack: the
\* largest height after any opcode, or -1 when an opcode underflows
RECURSIVE runMax(_, _, _)
runMax(i, h, mx) ==
    IF i > Len(code) THEN mx
    ELSE IF h < jt(code[i]).minStack THEN -1
    ELSE runMax(i + 1, h + Delta(code[i]), Max2(mx, h + Delta(code[i])))

\* a sequence of opcodes without immediates whose last opcode, and no other, is
\* terminal, in a single-section container that takes no inputs
linearProgram ==
    /\ Len(code) > 0 /\ Len(metadata) = 1 /\ section = 0
    /\ sectionType.Input = 0
    /\ \A i \in 1..Len(code) :
          /\ jt(code[i]).immediate = 0 /\ ~jt(code[i]).undefined
          /\ code[i] # RETF
          /\ jt(code[i]).terminal <=> i = Len(code)

\* the scan is at a RETF
atRetf ==
    /\ result.kind = "running" /\ InCode(code, pos) /\ pos \in DOMAIN stackBounds
    /\ opAt(pos) = RETF

\* the section a CALLF or JUMPF at p names, and whether p holds such a call
callee(p) == metadata[parseUint16(code, p + 1) + 1]
isCall(p) ==
    /\ InCode(code, p + 2) /\ opAt(p) \in {CALLF, JUMPF}
    /\ parseUint16(code, p + 1) < Len(metadata)

\* the height the stack can reach inside the callee: b.max + MaxStackHeight - Input
headroom(b, p) == b.max + callee(p).MaxStackHeight - callee(p).Input

\* the scan is at a CALLF or JUMPF whose inputs are on the stack
atCall ==
    /\ result.kind = "running" /\ pos \in DOMAIN stackBounds /\ isCall(pos)
    /\ opAt(pos) = CALLF => stackBounds[pos].min >= callee(pos).Input

\* the scan is at a JUMPF into a returning section that passes the stack limit
atJumpfReturning ==
    /\ result.kind = "running" /\ pos \in DOMAIN stackBounds /\ isCall(pos)
    /\ opAt(pos) = JUMPF /\ callee(pos).Output # NonReturning
    /\ headroom(stackBounds[pos], pos) <= StackLimit

\* the height a JUMPF at p into a returning section has to arrive with
jumpfHeight(p) == sectionType.Output + callee(p).Input - callee(p).Output

\* the scan is at a relative jump of a section that decodes, and one of the
\* jump's targets is no instruction start
atInvalidJump ==
    /\ result.kind = "running" /\ pos \in DOMAIN stackBounds
    /\ pos \in instructionStarts /\ opAt(pos) \in {RJUMP, RJUMPI, RJUMPV}
    /\ \E t \in jumpTargets(pos) : t \notin instructionStarts

\* the immediate bytes of the instruction at p
immediateBytes(p) == (p + 1)..(p + instructionSize(p) - 1)

\* the scan is at a relative jump
atJump ==
    /\ result.kind = "running" /\ pos \in DOMAIN stackBounds /\ InCode(code, pos)
    /\ opAt(pos) \in {RJUMP, RJUMPI, RJUMPV}

\* the scan is at a relative jump with a backward target, and every backward
\* target of the jump has stored bounds equal to the exit bounds of the jump
atMatchingBackEdge ==
    /\ atJump
    /\ stackBounds[pos].min >= jt(opAt(pos)).minStack
    /\ \E t \in jumpTargets(pos) : t < pos
    /\ \A t \in jumpTargets(pos) :
          t < pos => /\ t \in DOMAIN stackBounds
                     /\ stackBounds[t] = shift(stackBounds[pos], Delta(opAt(pos)))

\* opcodes the first switch of the loop has no case for
generic(op) == op \notin {CALLF, RETF, JUMPF, DUPN, SWAPN, EXCHANGE}

\* the bounds of pos came from the section entry, a fall-through or a forward jump
setFromBelow(p) == p \in DOMAIN origin /\ origin[p] \cap {"init", "fall", "fwd"} # {}

\* the scan is at a defined opcode that falls through to the next instruction
\* and is neither a relative jump nor a call, with its immediates in the section
\* and its inputs on the stack
atFallThrough ==
    /\ result.kind = "running" /\ pos \in DOMAIN stackBounds /\ InCode(code, pos)
    /\ opAt(pos) \notin {RJUMP, RJUMPI, RJUMPV, CALLF, RETF, JUMPF}
    /\ ~jt(opAt(pos)).terminal /\ ~jt(opAt(pos)).undefined
    /\ InCode(code, pos + jt(opAt(pos)).immediate)

\* the bounds of offset t after bounds b have been propagated to it: b when t
\* had none, the union of the two intervals otherwise
propagated(t, b) ==
    IF t \in DOMAIN stackBounds
    THEN bounds(Min2(stackBounds[t].min, b.min), Max2(stackBounds[t].max, b.max))
    ELSE b

\* the scan is at an RJUMP or RJUMPI whose inputs are on the stack and whose
\* target lies ahead, inside the section
atForwardJump ==
    /\ atJump /\ opAt(pos) \in {RJUMP, RJUMPI} /\ hasImmediates(pos, 2)
    /\ stackBounds[pos].min >= jt(opAt(pos)).minStack
    /\ opRjump(pos) > pos /\ InCode(code, opRjump(pos))

\* the scan is at an RJUMPV whose condition is on the stack, whose table lies
\* in the section and whose successors all lie ahead, inside the section
atRjumpv ==
    /\ atJump /\ opAt(pos) = RJUMPV
    /\ stackBounds[pos].min >= jt(RJUMPV).minStack
    /\ successorOffsets(pos) # {}
    /\ \A t \in successorOffsets(pos) : t > pos /\ InCode(code, t)

\* the opcodes after which execution never continues at the following offset
Terminals == {JUMPF, RETF, RJUMP, STOP, RETURN, REVERT, INVALID, RETURNCONTRACT}

\* the scan is at one of these opcodes, with its immediates in the section, and
\* the offset that follows the instruction has no bounds
atTerminal ==
    /\ result.kind = "running" /\ pos \in DOMAIN stackBounds /\ InCode(code, pos)
    /\ opAt(pos) \in Terminals
    /\ pos + instructionSize(pos) <= Len(code)
    /\ pos + instructionSize(pos) \notin DOMAIN stackBounds

\* the scan is at a CALLF that names a section of the type table
atCallf ==
    /\ result.kind = "running" /\ pos \in DOMAIN stackBounds /\ isCall(pos)
    /\ opAt(pos) = CALLF

\* the scan is at a JUMPF into a non-returning section that passes the stack limit
atJumpfNonReturning ==
    /\ result.kind = "running" /\ pos \in DOMAIN stackBounds /\ isCall(pos)
    /\ opAt(pos) = JUMPF /\ callee(pos).Output = NonReturning
    /\ headroom(stackBounds[pos], pos) <= StackLimit

\* the scan is at a DUPN or SWAPN whose immediate byte lies in the section
atDupnSwapn ==
    /\ result.kind = "running" /\ pos \in DOMAIN stackBounds /\ InCode(code, pos + 1)
    /\ opAt(pos) \in {DUPN, SWAPN}

\* opExchange: the deepest stack item the interpreter touches for immediate x
exchangeDepth(x) ==
    LET n == (x \div 16) + 1
        m == (x % 16) + 1
    IN n + m + 1

\* the scan is at an EXCHANGE whose immediate byte lies in the section
atExchange ==
    /\ result.kind = "running" /\ pos \in DOMAIN stackBounds /\ InCode(code, pos + 1)
    /\ opAt(pos) = EXCHANGE

\* the frames of a return stack below its top frame
below(frames) == SubSeq(frames, 1, Len(frames) - 1)

\* the last opcode was a RETF that returned no error and matched a CALLF of
\* this run
returnedFromCallf ==
    scope.op = "RETF" /\ scope.err = "" /\ scope.returned # none

\* the section the last CALLF or JUMPF named
target == metadata[scope.arg + 1]

\* ------------------------------------------------------------------ claims
\* C1: in an accepted section every concrete execution from offset 0 with Input
\* items reaches each instruction with a height inside the bounds the validator
\* read on entry to it.
C1_Soundness ==
    (accepted /\ InCode(code, epc)) =>
        (epc \in visited /\ entry[epc].min <= eh /\ eh <= entry[epc].max)

\* C2: on a section whose jump targets are instruction starts inside the section,
\* the scan position strictly ascends from one loop iteration to the next.
C2_Ascending ==
    [][(jumpTargetsValid /\ result.kind = "running" /\ result'.kind = "running")
          => pos' > pos]_vars

\* C3: in an accepted section the bounds stored for the target t of a backward
\* jump from s (t <= s) equal the exit bounds of s.
C3_BackEdgeEquality ==
    accepted =>
        \A s \in visited : \A t \in jumpTargets(s) :
            t <= s => (t \in DOMAIN stackBounds /\ stackBounds[t] = exit(s))

\* C4: in an accepted section the bounds stored for the target t of a forward or
\* fall-through edge from s (t > s) contain the exit bounds of s.
C4_ForwardWidening ==
    accepted =>
        \A s \in visited : \A t \in successorOffsets(s) :
            (t > s /\ InCode(code, t)) =>
                (t \in DOMAIN stackBounds /\ stackBounds[t].min <= exit(s).min
                                          /\ stackBounds[t].max >= exit(s).max)

\* C5: a section that decodes, ends in a terminal instruction and jumps only to
\* instruction starts is accepted only if the largest height on entry to any of
\* its instructions, starting from Input at offset 0, equals the declared
\* MaxStackHeight.
C5_MaxStackHeightExact ==
    (accepted /\ endsTerminal /\ jumpTargetsValid)
        => observedMax = sectionType.MaxStackHeight

\* C6: when the scan reaches an instruction start whose bounds were never set by
\* a fall-through or a forward jump, the result is ErrUnreachableCode.
C6_UnreachableRejected ==
    [][(result.kind = "running" /\ pos < Len(code) /\ pos \in instructionStarts
          /\ ~setFromBelow(pos))
          => result'.kind = "ErrUnreachableCode"]_vars

\* C7: at an opcode without special handling the result is ErrStackUnderflow
\* exactly when the entry min is below the opcode's minStack, and the error
\* carries stackLen = entry min and required = minStack.
C7_GenericUnderflow ==
    [][(result.kind = "running" /\ InCode(code, pos) /\ pos \in DOMAIN stackBounds
          /\ generic(opAt(pos)))
          => /\ (result'.kind = "ErrStackUnderflow")
                  <=> (stackBounds[pos].min < jt(opAt(pos)).minStack)
             /\ result'.kind = "ErrStackUnderflow"
                  => /\ result'.stackLen = stackBounds[pos].min
                     /\ result'.required = jt(opAt(pos)).minStack]_vars

\* PUSH1 0x42; ADD; STOP has been rejected at ADD with stackLen 1, required 2
C7_Witness ==
    /\ result.kind = "ErrStackUnderflow"
    /\ InCode(code, pos) /\ opAt(pos) = ADD
    /\ result.stackLen = 1 /\ result.required = 2

\* C8: a sequence of opcodes without immediates, in which no opcode underflows
\* the running height from the empty stack, only the last opcode is terminal
\* and MaxStackHeight is the largest running height, is accepted.
C8_NoSpuriousRejection ==
    (linearProgram /\ runMax(1, 0, 0) # -1
       /\ sectionType.MaxStackHeight = runMax(1, 0, 0)
       /\ result.kind # "running")
        => accepted

\* C9: a RETF passes only on a single height equal to Output: min # max gives
\* ErrInvalidNumberOfOutputs, a single height other than Output, lower or
\* higher, gives ErrInvalidOutputs.
C9_RetfOutputs ==
    [][atRetf =>
         LET b == stackBounds[pos] IN
         /\ b.min # b.max => result'.kind = "ErrInvalidNumberOfOutputs"
         /\ (b.min = b.max /\ b.min # sectionType.Output)
               => result'.kind = "ErrInvalidOutputs"
         /\ (b.min = b.max /\ b.min = sectionType.Output)
               => result'.kind = "running"]_vars

\* C10: an accepted section whose Output is 0x80 has no RETF among the
\* instructions the validator went through.
C10_NonReturningNoRetf ==
    (accepted /\ sectionType.Output = NonReturning)
        => \A p \in visited : opAt(p) # RETF

C12_NoCallfToNonReturning ==
    accepted =>
        \A p \in visited :
            (isCall(p) /\ opAt(p) = CALLF) => callee(p).Output # NonReturning

\* C13: a JUMPF into a returning section passes exactly when its entry bounds
\* are a single height equal to Output[section] + Input[idx] - Output[idx];
\* otherwise the result is ErrInvalidNumberOfOutputs.
C13_JumpfReturning ==
    [][atJumpfReturning =>
         LET b == stackBounds[pos] IN
         IF b.min = b.max /\ b.max = jumpfHeight(pos)
         THEN result'.kind = "running"
         ELSE result'.kind = "ErrInvalidNumberOfOutputs"]_vars

\* a JUMPF into a returning section has been rejected on a single height above
\* the required one
C13_Witness ==
    /\ result.kind = "ErrInvalidNumberOfOutputs"
    /\ pos \in DOMAIN stackBounds /\ isCall(pos) /\ opAt(pos) = JUMPF
    /\ callee(pos).Output # NonReturning
    /\ stackBounds[pos].min = stackBounds[pos].max
    /\ stackBounds[pos].max > jumpfHeight(pos)

\* C14: a relative jump with a target that is no instruction start of the
\* section (negative, at or past the end, or inside an immediate) is rejected
\* with an error, and the byte at an out-of-range target is not read (no
\* index-out-of-range panic).
C14_InvalidJumpDest ==
    [][atInvalidJump => result'.kind \notin {"running", "panic"}]_vars

\* C15: in an accepted section every byte offset was visited as an instruction
\* start or lies in the immediate bytes of a visited instruction, and no
\* visited offset lies in the immediate bytes of a visited instruction.
C15_NoUnreachableBytes ==
    accepted =>
        /\ \A b \in 0..(Len(code) - 1) :
              b \in visited \/ \E p \in visited : b \in immediateBytes(p)
        /\ \A v \in visited : \A p \in visited : v \notin immediateBytes(p)

\* C16: after enableEOF the descriptor of every legacy-only opcode is marked
\* undefined.
C16_LegacyUndefined ==
    enabled => \A op \in legacyOnly : table[op].undefined

\* C17: when validateControlFlow2 returns an error its integer result is 0; the
\* count of offsets with recorded bounds is returned only on acceptance.
C17_NoPartialResult ==
    /\ result.kind \notin {"running", "ok"} => result.n = 0
    /\ accepted => result.n = Cardinality(DOMAIN stackBounds)

\* an error has been returned after bounds were recorded for several offsets
C17_Witness ==
    /\ result.kind \notin {"running", "ok", "panic"}
    /\ Cardinality(DOMAIN stackBounds) > 1
    /\ result.n = 0

C19_BackEdgeNotWidened ==
    [][atJump =>
         \A t \in jumpTargets(pos) :
             t < pos =>
                IF t \in DOMAIN stackBounds
                THEN t \in DOMAIN stackBounds' /\ stackBounds'[t] = stackBounds[t]
                ELSE t \notin DOMAIN stackBounds']_vars

\* C20: a backward jump whose exit bounds equal the bounds stored for its
\* target is not rejected with ErrInvalidBackwardJump, whatever opcode sits at
\* the target.
C20_NoSpuriousBackwardJump ==
    [][atMatchingBackEdge => result'.kind # "ErrInvalidBackwardJump"]_vars

\* C21: in an accepted section a second pass changes nothing: for every edge
\* s -> t (fall-through, forward or backward jump) the bounds stored for t
\* already contain the exit bounds of s.
C21_FixedPoint ==
    accepted =>
        \A s \in visited : \A t \in successorOffsets(s) :
            InCode(code, t) =>
                /\ t \in DOMAIN stackBounds
                /\ stackBounds[t].min <= exit(s).min
                /\ exit(s).max <= stackBounds[t].max

\* C22: after a non-terminal opcode at p that is neither a relative jump nor a
\* call, the scan continues at p + 1 + immediate size, and the bounds stored
\* there are the entry bounds of p shifted by pushes - pops.
C22_FallThroughStep ==
    [][(atFallThrough /\ result'.kind = "running") =>
         /\ pos' = pos + 1 + jt(opAt(pos)).immediate
         /\ pos' \in DOMAIN stackBounds'
         /\ stackBounds'[pos'] = shift(stackBounds[pos], Delta(opAt(pos)))]_vars

\* C23: an RJUMP at p hands its exit bounds to its target p + 3 + offset and to
\* no other offset, and the scan goes on at the target; an RJUMPI at p hands
\* its exit bounds (entry bounds minus 1) to p + 3 and to p + 3 + offset.
C23_JumpSuccessors ==
    [][atForwardJump =>
         LET t == opRjump(pos)
             b == shift(stackBounds[pos], Delta(opAt(pos)))
         IN /\ result'.kind = "running"
            /\ t \in DOMAIN stackBounds' /\ stackBounds'[t] = propagated(t, b)
            /\ opAt(pos) = RJUMP =>
                  /\ pos' = t
                  /\ DOMAIN stackBounds' = DOMAIN stackBounds \cup {t}
            /\ (opAt(pos) = RJUMPI /\ InCode(code, pos + 3)) =>
                  /\ pos' = pos + 3
                  /\ pos + 3 \in DOMAIN stackBounds'
                  /\ stackBounds'[pos + 3] = propagated(pos + 3, b)]_vars

\* C24: after an RJUMPV at p with count byte c, the offset behind the table and
\* the target of each of the c + 1 table entries, the last one included, have
\* bounds that contain the exit bounds of the RJUMPV, and the scan goes on
\* at the offset behind the table.
C24_RjumpvSuccessors ==
    [][atRjumpv =>
         LET b == shift(stackBounds[pos], Delta(RJUMPV)) IN
         /\ result'.kind = "running"
         /\ pos' = pos + 2 + 2 * (At(code, pos + 1) + 1)
         /\ \A t \in successorOffsets(pos) :
               /\ t \in DOMAIN stackBounds'
               /\ stackBounds'[t].min <= b.min /\ b.max <= stackBounds'[t].max]_vars

\* C25: a terminal opcode at p gives no bounds to the offset that follows the
\* instruction, and the scan goes on at that offset, where an instruction no
\* earlier forward jump has given bounds to meets the check for unreachable code.
C25_TerminalNoFallThrough ==
    [][atTerminal =>
         LET q == pos + instructionSize(pos) IN
         /\ q \notin DOMAIN stackBounds'
         /\ (result'.kind = "running" /\ InCode(code, q)) => pos' = q]_vars

\* C26: a CALLF idx at p gives ErrStackUnderflow exactly when entry min is
\* below Input[idx]; when it passes (the stack limit allowing), the scan goes
\* on at p + 3 with the entry bounds shifted by Output[idx] - Input[idx].
C26_CallfStep ==
    [][atCallf =>
         LET b == stackBounds[pos]
             idx == callee(pos)
         IN /\ (result'.kind = "ErrStackUnderflow") <=> (b.min < idx.Input)
            /\ result'.kind = "ErrStackUnderflow"
                  => /\ result'.stackLen = b.min
                     /\ result'.required = idx.Input
            /\ (b.min >= idx.Input /\ headroom(b, pos) <= StackLimit)
                  => /\ result'.kind = "running"
                     /\ pos' = pos + 3
                     /\ pos' \in DOMAIN stackBounds'
                     /\ stackBounds'[pos'] = shift(b, idx.Output - idx.Input)]_vars

\* ORIGIN; ORIGIN; CALLF 1; POP; RETF with section 1 = {Input 2, Output 1} has
\* been accepted with MaxStackHeight 2, the POP having received (1,1)
C26_Witness ==
    /\ accepted /\ sectionType.MaxStackHeight = 2
    /\ code = <<ORIGIN, ORIGIN, CALLF, 0, 1, POP, RETF>>
    /\ callee(2).Input = 2 /\ callee(2).Output = 1
    /\ entry[2] = bounds(2, 2) /\ entry[5] = bounds(1, 1)

\* C27: a JUMPF into a section whose Output is 0x80 passes when entry min is at
\* least Input[idx], entry min = Input[idx] included, and gives
\* ErrStackUnderflow only when entry min is below Input[idx].
C27_JumpfNonReturning ==
    [][atJumpfNonReturning =>
         IF stackBounds[pos].min >= callee(pos).Input
         THEN result'.kind = "running"
         ELSE result'.kind = "ErrStackUnderflow"]_vars

\* C28: a DUPN or SWAPN with immediate byte x and n = x + 1 passes exactly when
\* entry min is at least n + 1 and gives ErrStackUnderflow when entry min is
\* n or less.
C28_DupnSwapnInputs ==
    [][atDupnSwapn =>
         LET n == At(code, pos + 1) + 1 IN
         IF stackBounds[pos].min >= n + 1
         THEN result'.kind = "running"
         ELSE result'.kind = "ErrStackUnderflow"]_vars

\* C29: an EXCHANGE with immediate byte x, n = (x >> 4) + 1 and m = (x & 15) + 1
\* passes exactly when entry min is at least n + m + 1, the depth opExchange
\* swaps with, and gives ErrStackUnderflow otherwise.
C29_ExchangeInputs ==
    [][atExchange =>
         IF stackBounds[pos].min >= exchangeDepth(At(code, pos + 1))
         THEN result'.kind = "running"
         ELSE result'.kind = "ErrStackUnderflow"]_vars

\* C30: in an accepted section entry max + stack effect is at most 1023 at
\* every instruction the validator went through, and a section whose largest
\* recorded max is 1024 or more is neither accepted nor rejected with
\* ErrInvalidMaxStackHeight: the checks after the loop give ErrStackOverflow.
C30_NoOverflowAtAcceptance ==
    /\ accepted =>
          \A p \in visited : entry[p].max + stackEffect(p) <= StackLimit - 1
    /\ result.kind \in {"ok", "ErrInvalidMaxStackHeight"} =>
          /\ maxStackHeight <= StackLimit - 1
          /\ \A p \in DOMAIN stackBounds : stackBounds[p].max <= StackLimit - 1
    /\ (result.kind # "running" /\ pos >= Len(code) /\ maxStackHeight >= StackLimit) =>
          result.kind = "ErrStackOverflow"

\* the scan has run through a section whose recorded max reached exactly 1024,
\* and the checks after the loop have returned ErrStackOverflow
C30_Witness ==
    /\ result.kind = "ErrStackOverflow" /\ pos >= Len(code)
    /\ maxStackHeight = StackLimit
    /\ result.stackLen = StackLimit /\ result.required = StackLimit

\* C31: no opcode switches a frame's InitCodeMode from false to true, and
\* opReturnContract in a frame that was not entered in initcode mode returns an
\* error and pops nothing, whatever the frame has executed before.
C31_ReturnContractOnlyInInitcode ==
    [][/\ ~scope.InitCodeMode => ~scope'.InitCodeMode
       /\ (scope'.op = "RETURNCONTRACT" /\ ~scope.entered)
             => /\ scope'.err = "returncontract in non-initcode mode"
                /\ scope'.Stack = scope.Stack]_vars

\* C32: the RETF that matches a CALLF executed at pc p in section s resumes at
\* pc p + 3 in section s with the return stack the CALLF found; every opcode
\* leaves the frames below the top of the return stack as they are, so nested
\* calls return in last-in-first-out order.
C32_CallfRetfRoundTrip ==
    [][/\ (scope'.op = "RETF" /\ scope'.err = "" /\ scope.calls # <<>>) =>
             LET c == scope.calls[Len(scope.calls)] IN
             /\ scope'.CodeSection = c.section
             /\ scope'.pc = c.pc + 3
             /\ Len(scope'.ReturnStack) = c.depth
             /\ scope'.ReturnStack = below(scope.ReturnStack)
             /\ scope'.Stack = scope.Stack
       /\ (scope'.op = "CALLF" /\ scope'.err = "") =>
             below(scope'.ReturnStack) = scope.ReturnStack
       /\ scope'.op \notin {"CALLF", "RETF"} => scope'.ReturnStack = scope.ReturnStack]_vars

\* an inner CALLF has returned to its call site while an outer one is pending
C32_Witness ==
    /\ returnedFromCallf /\ scope.calls # <<>>
    /\ scope.returned.depth = Len(scope.ReturnStack)
    /\ scope.pc = scope.returned.pc + 3 /\ scope.CodeSection = scope.returned.section

\* C33: the return stack never holds more than 1024 frames; an opCallf
\* attempted with 1024 frames, or with stack height + maxStackHeight - inputs
\* of the callee above 1024, returns an error and leaves the return stack, the
\* code section and pc as they were; any other opCallf pushes one frame.
C33_ReturnStackBound ==
    [][/\ Len(scope'.ReturnStack) <= ReturnStackLimit
       /\ scope'.op = "CALLF" =>
             LET typ == metadata[scope'.arg + 1] IN
             IF \/ Len(scope.ReturnStack) >= ReturnStackLimit
                \/ scope.Stack + typ.MaxStackHeight - typ.Input > StackLimit
             THEN /\ scope'.err # ""
                  /\ scope'.ReturnStack = scope.ReturnStack
                  /\ scope'.CodeSection = scope.CodeSection
                  /\ scope'.pc = scope.pc
             ELSE /\ scope'.err = ""
                  /\ Len(scope'.ReturnStack) = Len(scope.ReturnStack) + 1]_vars

\* a CALLF has been refused on a return stack of 1024 frames
C33_Witness ==
    /\ scope.op = "CALLF" /\ scope.err = "return stack overflow"
    /\ Len(scope.ReturnStack) = ReturnStackLimit
    /\ scope.Stack + target.MaxStackHeight - target.Input <= StackLimit

\* C34: opJumpf changes the code section and pc and nothing else, the return
\* stack included, so a RETF in a section reached by JUMPF returns to the
\* instruction after the CALLF that entered the jumping section; when the
\* callee's head-room test fails opJumpf returns an error and changes neither
\* section nor pc.
C34_JumpfTailCall ==
    [][/\ scope'.op = "JUMPF" =>
             LET typ == metadata[scope'.arg + 1] IN
             /\ scope'.ReturnStack = scope.ReturnStack
             /\ scope'.Stack = scope.Stack
             /\ scope'.InitCodeMode = scope.InitCodeMode
             /\ IF scope.Stack + typ.MaxStackHeight - typ.Input > StackLimit
                THEN /\ scope'.err = "stack overflow"
                     /\ scope'.CodeSection = scope.CodeSection
                     /\ scope'.pc = scope.pc
                ELSE /\ scope'.err = ""
                     /\ scope'.CodeSection = scope'.arg
                     /\ scope'.pc = codeSectionOffsets(scope'.arg)
       /\ (scope'.op = "RETF" /\ scope'.err = "" /\ scope.calls # <<>>
             /\ scope.calls[Len(scope.calls)].jumped) =>
             LET c == scope.calls[Len(scope.calls)] IN
             /\ scope'.CodeSection = c.section
             /\ scope'.pc = c.pc + 3
             /\ Len(scope'.ReturnStack) = c.depth]_vars

\* a RETF executed after a JUMPF has returned behind the CALLF that entered the
\* jumping section
C34_Witness ==
    /\ returnedFromCallf /\ scope.returned.jumped
    /\ scope.pc = scope.returned.pc + 3 /\ scope.CodeSection = scope.returned.section
    /\ Len(scope.ReturnStack) = scope.returned.depth

====
